---- MODULE Spec2Model ----
(***************************************************************************)
(* A model of polyproto's identity certificate requests (ID-Csr) and      *)
(* identity certificates (ID-Cert): construction, role validation, the    *)
(* mapping onto the PKCS #10 / X.509 wire structures, and the earlier      *)
(* string based certificate types of certificates.rs.                      *)
(*                                                                         *)
(* The caller holds one value at a time (every operation takes its input   *)
(* by value and returns a new value), `origin` remembers which entity a    *)
(* byte string was encoded from, and `last` records the last call: its    *)
(* name, its inputs, its result and how often it invoked the pluggable     *)
(* sign / verify_signature primitives.                                     *)
(***************************************************************************)
EXTENDS Integers, Sequences, FiniteSets, TLC

VARIABLES held, origin, last

vars == <<held, origin, last>>

(***************************************************************************)
(* Bounds of the model.                                                    *)
(***************************************************************************)
\* largest number of domain components of a Name
MaxDc == 2
\* number of key pairs (private key k belongs to public key k)
NumKeys == 2

(***************************************************************************)
(* Values.                                                                 *)
(***************************************************************************)
None == [none |-> TRUE]

Keys == 1..NumKeys

\* a label is a byte string; << >> is the empty label
CnLabels == {<< >>, <<97>>}
DcLabels == {<< >>, <<98>>, <<99>>}
DcSeqs == UNION {[1..n -> DcLabels] : n \in 0..MaxDc}
Names == [cn : CnLabels, dc : DcSeqs]

\* Capabilities: the CA flag and the key usage flags (a code; 0 is the flag
\* set the validator rejects)
CapabilitiesSet == [basic_constraints : [ca : BOOLEAN], key_usage : 0..1]

\* the algorithm identifier of the Signature type S, and a foreign one
S_algorithm_identifier == [oid |-> 112]
OtherAlgorithm == [oid |-> 113]

SerialSet == {<<1>>, <<240, 10>>}
ValiditySet == {[not_before |-> 1, not_after |-> 2]}

\* the issuer names a certificate authority tries
IssuerSet ==
    [cn : CnLabels,
     dc : {<< >>, <<<<98>>>>, <<<<99>>>>, <<<<98>>, <<99>>>>, << << >> >>}]

\* certification requests encoded by another party: attributes in either
\* order, missing, repeated, unknown or with a bad value, a foreign key or
\* signature algorithm, signatures that do not verify
ForeignAttributes ==
    LET bc == [oid |-> 19, val |-> 0]
        ku == [oid |-> 15, val |-> 1] IN
    {<<bc, ku>>, <<ku, bc>>, <<bc>>, <<bc, bc, ku>>, <<bc, ku, [oid |-> 37, val |-> 1]>>,
     <<[oid |-> 19, val |-> 7], ku>>, <<[oid |-> 19, val |-> 255], [oid |-> 15, val |-> 0]>>}

ForeignCertReqs ==
    [info : [version : {0},
             subject : {[cn |-> <<97>>, dc |-> <<<<98>>>>], [cn |-> << >>, dc |-> <<<<98>>>>]},
             public_key : [algorithm : {S_algorithm_identifier, OtherAlgorithm},
                           subject_public_key : {[unused |-> 0, raw |-> <<1>>]}],
             attributes : ForeignAttributes],
     algorithm : {S_algorithm_identifier, OtherAlgorithm},
     signature : {[unused |-> 0, raw |-> <<1, 9>>], [unused |-> 0, raw |-> << >>]}]

\* certificates encoded by another party: an issuer of the subject's domain
\* or of another one, a subject with or without a common name, a key usage
\* that is or is not acceptable, extensions present or absent, a signature of
\* the expected length or an empty one
ForeignCertificates ==
    [tbs_certificate :
         [version : {2}, serial_number : {<<1>>},
          signature : {S_algorithm_identifier},
          issuer : {[cn |-> <<97>>, dc |-> <<<<98>>>>], [cn |-> <<97>>, dc |-> <<<<99>>>>]},
          validity : ValiditySet,
          subject : {[cn |-> <<97>>, dc |-> <<<<98>>>>], [cn |-> << >>, dc |-> <<<<98>>>>]},
          subject_public_key_info :
              [algorithm : {S_algorithm_identifier, OtherAlgorithm},
               subject_public_key : {[unused |-> 0, raw |-> <<1>>]}],
          extensions : {None,
                        [some |-> <<[oid |-> 19, val |-> 0], [oid |-> 15, val |-> 1]>>],
                        [some |-> <<[oid |-> 19, val |-> 255], [oid |-> 15, val |-> 0]>>]}],
     signature_algorithm : {S_algorithm_identifier},
     signature : {[unused |-> 0, raw |-> <<1, 9>>], [unused |-> 0, raw |-> << >>]}]

\* the bytes a serial number is made from: with and without leading zeros,
\* the top bit of the first byte clear and set, and a number too long for a
\* serial number
SerialBytes ==
    {<<0>>, <<10>>, <<240>>, <<0, 10>>, <<0, 240>>, <<10, 240>>, <<240, 10>>,
     <<0, 0, 240>>, <<10, 0, 0>>, [i \in 1..22 |-> 1]}

\* the values of certificates.rs
LegacyPublicKeys == [signature_type : {"TypeA", "TypeB"}, bytes : {<<7>>, <<8>>}]
LegacyPrivateKeys == [signature_type : {"TypeA", "TypeB"}, key : {1}]
FederationIds == [actor_name : {<<97>>}, domain : {<<98>>, <<98, 98>>}, tld : {<<99>>}]
ExpirySet == {0, 258}
LegacySerialSet == {<< >>, <<49>>}
LegacyCsrSet ==
    [pub_key : LegacyPublicKeys, federation_id : FederationIds,
     session_id : {<< >>, <<115>>},
     expiry : {None} \cup {[some |-> e] : e \in ExpirySet}]

\* the certificates to be signed that to_id_cert_tbs makes of these requests
LegacyTbsSet ==
    [pub_key : LegacyPublicKeys, federation_id : FederationIds,
     session_id : {<< >>, <<115>>}, expiry : ExpirySet, serial : LegacySerialSet]

(***************************************************************************)
(* Results of fallible calls.                                              *)
(***************************************************************************)
NoError == [kind |-> "none", msg |-> ""]
Ok(v) == [ok |-> TRUE, v |-> v, err |-> NoError]
Fail(e) == [ok |-> FALSE, v |-> None, err |-> e]
Err(kind) == Fail([kind |-> kind, msg |-> ""])
\* ConstraintError::Malformed(Some(msg))
ConstraintError(msg) == [kind |-> "ConstraintError", msg |-> msg]
\* a result together with the number of sign and verify_signature calls made
Res(r, ns, nv) ==
    [ok |-> r.ok, v |-> r.v, err |-> r.err, nsign |-> ns, nverify |-> nv]

(***************************************************************************)
(* Binding a computed value to a name (the value is computed once).        *)
(***************************************************************************)
With(v, Body(_)) == Body(v)
With2(v, w, Body(_, _)) == Body(v, w)
With3(u, v, w, Body(_, _, _)) == Body(u, v, w)

(***************************************************************************)
(* The DER codec (external collaborator): tag, length, value.              *)
(***************************************************************************)
RECURSIVE Concat(_)
Concat(ss) == IF ss = << >> THEN << >> ELSE Head(ss) \o Concat(Tail(ss))

Tlv(tag, c) ==
    IF Len(c) < 128 THEN <<tag, Len(c)>> \o c ELSE <<tag, 129, Len(c)>> \o c

BadTlv == [ok |-> FALSE, tag |-> 0, val |-> << >>, rest |-> << >>]

\* reads the first tag-length-value of bs
ReadTlv(bs) ==
    IF Len(bs) < 2 THEN BadTlv
    ELSE IF bs[2] < 128
         THEN IF Len(bs) < 2 + bs[2] THEN BadTlv
              ELSE [ok |-> TRUE, tag |-> bs[1],
                    val |-> SubSeq(bs, 3, 2 + bs[2]),
                    rest |-> SubSeq(bs, 3 + bs[2], Len(bs))]
         ELSE IF bs[2] = 129 /\ Len(bs) >= 3 /\ bs[3] >= 128 /\ Len(bs) >= 3 + bs[3]
              THEN [ok |-> TRUE, tag |-> bs[1],
                    val |-> SubSeq(bs, 4, 3 + bs[3]),
                    rest |-> SubSeq(bs, 4 + bs[3], Len(bs))]
              ELSE BadTlv

\* reads every tag-length-value of bs; ok only when bs is used up exactly
RECURSIVE ReadAllFrom(_, _)
ReadAllFrom(bs, items) ==
    IF bs = << >> THEN [ok |-> TRUE, items |-> items]
    ELSE With(ReadTlv(bs), LAMBDA t :
             IF ~t.ok THEN [ok |-> FALSE, items |-> << >>]
             ELSE ReadAllFrom(t.rest, Append(items, t)))

ReadAll(bs) == ReadAllFrom(bs, << >>)

\* the fields of a constructed value with the given tag
Fields(t, tag) ==
    IF t.tag # tag THEN [ok |-> FALSE, items |-> << >>] ELSE ReadAll(t.val)

\* Name: SEQUENCE { UTF8String cn, IA5String dc ... }
EncName(n) ==
    Tlv(48, Tlv(12, n.cn) \o Concat([i \in 1..Len(n.dc) |-> Tlv(22, n.dc[i])]))

DecName(t) ==
    With(Fields(t, 48), LAMBDA r :
        IF ~r.ok \/ Len(r.items) < 1 THEN Err("DerError")
        ELSE IF r.items[1].tag # 12
                \/ \E i \in 2..Len(r.items) : r.items[i].tag # 22
             THEN Err("DerError")
             ELSE Ok([cn |-> r.items[1].val,
                      dc |-> [i \in 1..(Len(r.items) - 1) |-> r.items[i + 1].val]]))

\* AlgorithmIdentifier: SEQUENCE { OBJECT IDENTIFIER }
EncAlg(a) == Tlv(48, Tlv(6, <<a.oid>>))

DecAlg(t) ==
    With(Fields(t, 48), LAMBDA r :
        IF ~r.ok \/ Len(r.items) # 1 THEN Err("DerError")
        ELSE IF r.items[1].tag # 6 \/ Len(r.items[1].val) # 1 THEN Err("DerError")
             ELSE Ok([oid |-> r.items[1].val[1]]))

\* BIT STRING: the number of unused bits, then the bytes
EncBitString(b) == Tlv(3, <<b.unused>> \o b.raw)

DecBitString(t) ==
    IF t.tag # 3 \/ Len(t.val) < 1 THEN Err("DerError")
    ELSE IF t.val[1] > 7 \/ (Len(t.val) = 1 /\ t.val[1] # 0) THEN Err("DerError")
         ELSE Ok([unused |-> t.val[1], raw |-> Tail(t.val)])

\* INTEGER: the bytes of a two's complement number, shortest form
EncInt(bytes) == Tlv(2, bytes)

DecInt(t) ==
    IF t.tag # 2 \/ Len(t.val) < 1 THEN Err("DerError")
    ELSE IF Len(t.val) >= 2 /\ t.val[1] = 0 /\ t.val[2] < 128 THEN Err("DerError")
         ELSE Ok(t.val)

\* SubjectPublicKeyInfo: SEQUENCE { AlgorithmIdentifier, BIT STRING }
EncSpki(k) == Tlv(48, EncAlg(k.algorithm) \o EncBitString(k.subject_public_key))

DecSpki(t) ==
    With(Fields(t, 48), LAMBDA r :
        IF ~r.ok \/ Len(r.items) # 2 THEN Err("DerError")
        ELSE With2(DecAlg(r.items[1]), DecBitString(r.items[2]), LAMBDA a, b :
                 IF ~a.ok \/ ~b.ok THEN Err("DerError")
                 ELSE Ok([algorithm |-> a.v, subject_public_key |-> b.v])))

\* Attribute / Extension: SEQUENCE { OBJECT IDENTIFIER, OCTET STRING }
EncAttr(a) == Tlv(48, Tlv(6, <<a.oid>>) \o Tlv(4, <<a.val>>))

DecAttr(t) ==
    With(Fields(t, 48), LAMBDA r :
        IF ~r.ok \/ Len(r.items) # 2 THEN Err("DerError")
        ELSE IF r.items[1].tag # 6 \/ Len(r.items[1].val) # 1
                \/ r.items[2].tag # 4 \/ Len(r.items[2].val) # 1
             THEN Err("DerError")
             ELSE Ok([oid |-> r.items[1].val[1], val |-> r.items[2].val[1]]))

\* Attributes ([0], tag 160) and Extensions ([3], tag 163)
EncAttrs(tag, as) == Tlv(tag, Concat([i \in 1..Len(as) |-> EncAttr(as[i])]))

DecAttrs(tag, t) ==
    With(Fields(t, tag), LAMBDA r :
        IF ~r.ok THEN Err("DerError")
        ELSE With([i \in 1..Len(r.items) |-> DecAttr(r.items[i])], LAMBDA as :
                 IF \E i \in 1..Len(as) : ~as[i].ok THEN Err("DerError")
                 ELSE Ok([i \in 1..Len(as) |-> as[i].v])))

\* CertificationRequestInfo: SEQUENCE { INTEGER version, Name,
\* SubjectPublicKeyInfo, [0] Attributes }
EncCertReqInfo(i) ==
    Tlv(48, EncInt(<<i.version>>) \o EncName(i.subject) \o EncSpki(i.public_key)
            \o EncAttrs(160, i.attributes))

DecCertReqInfo(t) ==
    With(Fields(t, 48), LAMBDA r :
        IF ~r.ok \/ Len(r.items) # 4 THEN Err("DerError")
        ELSE With3(DecName(r.items[2]), DecSpki(r.items[3]), DecAttrs(160, r.items[4]),
                   LAMBDA n, k, a :
                 IF r.items[1].tag # 2 \/ r.items[1].val # <<0>>
                    \/ ~n.ok \/ ~k.ok \/ ~a.ok
                 THEN Err("DerError")
                 ELSE Ok([version |-> 0, subject |-> n.v, public_key |-> k.v,
                          attributes |-> a.v])))

\* CertificationRequest: SEQUENCE { CertificationRequestInfo,
\* AlgorithmIdentifier, BIT STRING }
EncCertReq(c) ==
    Tlv(48, EncCertReqInfo(c.info) \o EncAlg(c.algorithm) \o EncBitString(c.signature))

DecCertReq(t) ==
    With(Fields(t, 48), LAMBDA r :
        IF ~r.ok \/ Len(r.items) # 3 THEN Err("DerError")
        ELSE With3(DecCertReqInfo(r.items[1]), DecAlg(r.items[2]),
                   DecBitString(r.items[3]), LAMBDA i, a, s :
                 IF ~i.ok \/ ~a.ok \/ ~s.ok THEN Err("DerError")
                 ELSE Ok([info |-> i.v, algorithm |-> a.v, signature |-> s.v])))

\* Decode::from_der: one value, no trailing data
FromDer(Dec(_), bytes) ==
    With(ReadTlv(bytes), LAMBDA t :
        IF ~t.ok \/ t.rest # << >> THEN Err("DerError") ELSE Dec(t))

CertReq_from_der(bytes) == FromDer(DecCertReq, bytes)

\* Validity: SEQUENCE { UTCTime not_before, UTCTime not_after }
EncValidity(v) == Tlv(48, Tlv(23, <<v.not_before>>) \o Tlv(23, <<v.not_after>>))

DecValidity(t) ==
    With(Fields(t, 48), LAMBDA r :
        IF ~r.ok \/ Len(r.items) # 2 THEN Err("DerError")
        ELSE IF \E i \in 1..2 : r.items[i].tag # 23 \/ Len(r.items[i].val) # 1
             THEN Err("DerError")
             ELSE Ok([not_before |-> r.items[1].val[1],
                      not_after |-> r.items[2].val[1]]))

\* TBSCertificate: SEQUENCE { [0] version, INTEGER serialNumber,
\* AlgorithmIdentifier signature, Name issuer, Validity, Name subject,
\* SubjectPublicKeyInfo, [3] Extensions OPTIONAL }
EncTbsCertificate(c) ==
    Tlv(48, Tlv(160, EncInt(<<c.version>>)) \o EncInt(c.serial_number)
            \o EncAlg(c.signature) \o EncName(c.issuer) \o EncValidity(c.validity)
            \o EncName(c.subject) \o EncSpki(c.subject_public_key_info)
            \o (IF c.extensions = None THEN << >> ELSE EncAttrs(163, c.extensions.some)))

DecTbsCertificate(t) ==
    With(Fields(t, 48), LAMBDA r :
        IF ~r.ok \/ Len(r.items) \notin {7, 8} THEN Err("DerError")
        ELSE With3(<<DecInt(r.items[2]), DecAlg(r.items[3]), DecValidity(r.items[5])>>,
                   <<DecName(r.items[4]), DecName(r.items[6])>>,
                   <<DecSpki(r.items[7]),
                     IF Len(r.items) = 8 THEN DecAttrs(163, r.items[8]) ELSE Ok(None)>>,
                   LAMBDA sav, names, ke :
                 IF r.items[1].tag # 160 \/ r.items[1].val # EncInt(<<2>>)
                    \/ (\E i \in 1..3 : ~sav[i].ok)
                    \/ (\E j \in 1..2 : ~names[j].ok \/ ~ke[j].ok)
                 THEN Err("DerError")
                 ELSE Ok([version |-> 2, serial_number |-> sav[1].v,
                          signature |-> sav[2].v, issuer |-> names[1].v,
                          validity |-> sav[3].v, subject |-> names[2].v,
                          subject_public_key_info |-> ke[1].v,
                          extensions |-> IF Len(r.items) = 8
                                         THEN [some |-> ke[2].v] ELSE None])))

\* Certificate: SEQUENCE { TBSCertificate, AlgorithmIdentifier, BIT STRING }
EncCertificate(c) ==
    Tlv(48, EncTbsCertificate(c.tbs_certificate) \o EncAlg(c.signature_algorithm)
            \o EncBitString(c.signature))

DecCertificate(t) ==
    With(Fields(t, 48), LAMBDA r :
        IF ~r.ok \/ Len(r.items) # 3 THEN Err("DerError")
        ELSE With3(DecTbsCertificate(r.items[1]), DecAlg(r.items[2]),
                   DecBitString(r.items[3]), LAMBDA c, a, s :
                 IF ~c.ok \/ ~a.ok \/ ~s.ok THEN Err("DerError")
                 ELSE Ok([tbs_certificate |-> c.v, signature_algorithm |-> a.v,
                          signature |-> s.v])))

Certificate_from_der(bytes) == FromDer(DecCertificate, bytes)
CertReqInfo_from_der(bytes) == FromDer(DecCertReqInfo, bytes)

(***************************************************************************)
(* The PEM codec (external collaborator): a BEGIN line, the base64 text of *)
(* the DER bytes wrapped into lines, an END line.  Characters are numbers: *)
(* 0..63 a base64 digit, 64 the padding '=', 65 LF, 66 CR, 70 / 71 the     *)
(* BEGIN / END CERTIFICATE REQUEST lines.                                  *)
(***************************************************************************)
PemWidth == 64

LineEndings == {"LF", "CRLF", "CR"}

LineEndingChars(le) ==
    IF le = "LF" THEN <<65>> ELSE IF le = "CR" THEN <<66>> ELSE <<66, 65>>

RECURSIVE Base64Encode(_)
Base64Encode(bs) ==
    IF Len(bs) = 0 THEN << >>
    ELSE IF Len(bs) = 1
         THEN <<bs[1] \div 4, (bs[1] % 4) * 16, 64, 64>>
    ELSE IF Len(bs) = 2
         THEN <<bs[1] \div 4, (bs[1] % 4) * 16 + bs[2] \div 16, (bs[2] % 16) * 4, 64>>
    ELSE <<bs[1] \div 4, (bs[1] % 4) * 16 + bs[2] \div 16,
           (bs[2] % 16) * 4 + bs[3] \div 64, bs[3] % 64>>
         \o Base64Encode(SubSeq(bs, 4, Len(bs)))

\* strict decoding: whole groups of four, padding only at the end of the
\* last group, unused bits zero
Base64Pad(cs) ==
    IF Len(cs) >= 2 /\ cs[Len(cs) - 1] = 64 THEN 2
    ELSE IF Len(cs) >= 1 /\ cs[Len(cs)] = 64 THEN 1 ELSE 0

Base64Valid(cs) ==
    /\ Len(cs) % 4 = 0
    /\ \A i \in 1..(Len(cs) - Base64Pad(cs)) : cs[i] <= 63
    /\ \A i \in (Len(cs) - Base64Pad(cs) + 1)..Len(cs) : cs[i] = 64
    /\ Base64Pad(cs) = 2 => cs[Len(cs) - 2] % 16 = 0
    /\ Base64Pad(cs) = 1 => cs[Len(cs) - 1] % 4 = 0

\* byte j of the decoded text: it lies in group (j - 1) \div 3
Base64Byte(cs, j) ==
    LET g == 4 * ((j - 1) \div 3) IN
    IF (j - 1) % 3 = 0 THEN cs[g + 1] * 4 + cs[g + 2] \div 16
    ELSE IF (j - 1) % 3 = 1 THEN (cs[g + 2] % 16) * 16 + cs[g + 3] \div 4
    ELSE (cs[g + 3] % 4) * 64 + cs[g + 4]

Base64Decode(cs) ==
    IF ~Base64Valid(cs) THEN Err("PemError")
    ELSE Ok([j \in 1..(3 * (Len(cs) \div 4) - Base64Pad(cs)) |-> Base64Byte(cs, j)])

RECURSIVE WrapLines(_, _)
WrapLines(cs, le) ==
    IF Len(cs) = 0 THEN << >>
    ELSE IF Len(cs) <= PemWidth THEN cs \o le
    ELSE SubSeq(cs, 1, PemWidth) \o le \o WrapLines(SubSeq(cs, PemWidth + 1, Len(cs)), le)

IsLineEndingChar(c) == c \in {65, 66}
IsBodyChar(c) == ~IsLineEndingChar(c)

\* EncodePem::to_pem of a certification request
PemEncode(der, line_ending) ==
    LET le == LineEndingChars(line_ending) IN
    <<70>> \o le \o WrapLines(Base64Encode(der), le) \o <<71>> \o le

\* DecodePem::from_pem down to the DER bytes
PemDecode(pem) ==
    With(SelectSeq(pem, IsBodyChar), LAMBDA s :
        IF Len(s) < 2 \/ Len(pem) < 2 THEN Err("PemError")
        ELSE IF s[1] # 70 \/ s[Len(s)] # 71 \/ ~IsLineEndingChar(pem[2])
                \/ \E i \in 2..(Len(s) - 1) : s[i] > 64
             THEN Err("PemError")
             ELSE Base64Decode(SubSeq(s, 2, Len(s) - 1)))

CertReq_from_pem(pem) ==
    With(PemDecode(pem), LAMBDA d : IF ~d.ok THEN d ELSE CertReq_from_der(d.v))

(***************************************************************************)
(* The pluggable signature and key implementation.  Private key k signs    *)
(* with the byte pair <<k, digest of the data>>; public key k accepts      *)
(* exactly that pair.                                                      *)
(***************************************************************************)
RECURSIVE DigestRange(_, _, _)
DigestRange(bs, lo, hi) ==
    IF lo > hi THEN 7
    ELSE IF lo = hi THEN (lo * bs[lo] + 1) % 251
    ELSE (31 * DigestRange(bs, lo, (lo + hi) \div 2)
          + DigestRange(bs, ((lo + hi) \div 2) + 1, hi)) % 251

Digest(bs) == DigestRange(bs, 1, Len(bs))

\* PrivateKey::pubkey
PrivateKey_pubkey(signing_key) == [key |-> signing_key.key]

\* PrivateKey::sign
PrivateKey_sign(signing_key, data) == [bytes |-> <<signing_key.key, Digest(data)>>]

\* PrivateKey::algorithm_identifier
PrivateKey_algorithm_identifier(signing_key) == S_algorithm_identifier

\* PublicKey::verify_signature
PublicKey_verify_signature(public_key, signature, data) ==
    signature.bytes = <<public_key.key, Digest(data)>>

\* PublicKey::public_key_info
PublicKey_public_key_info(public_key) ==
    [algorithm |-> S_algorithm_identifier, public_key_bitstring |-> <<public_key.key>>]

\* PublicKey::try_from_public_key_info: rejects a foreign algorithm and
\* malformed key bits
PublicKey_try_from_public_key_info(info) ==
    IF info.algorithm # S_algorithm_identifier \/ Len(info.public_key_bitstring) # 1
    THEN Err("InvalidInput")
    ELSE Ok([key |-> info.public_key_bitstring[1]])

\* Signature::from_bytes / Signature::from_bitstring
Signature_from_bytes(bytes) == [bytes |-> bytes]

\* the byte layout of a signature of type S: the signer and the digest
Signature_valid_layout(bytes) == Len(bytes) = 2

\* Signature::to_bitstring
Signature_to_bitstring(signature) == Ok([unused |-> 0, raw |-> signature.bytes])

\* From<PublicKeyInfo> for SubjectPublicKeyInfo
PublicKeyInfo_into(info) ==
    [algorithm |-> info.algorithm,
     subject_public_key |-> [unused |-> 0, raw |-> info.public_key_bitstring]]

(***************************************************************************)
(* Constraints of the parts.                                               *)
(***************************************************************************)
\* Constrained for Name: a common name and a fully qualified domain name
Name_validate(name) ==
    /\ name.cn # << >>
    /\ Len(name.dc) >= 1
    /\ \A i \in 1..Len(name.dc) : name.dc[i] # << >>

\* Constrained for Capabilities
Capabilities_validate(capabilities) == capabilities.key_usage # 0

\* the domain components of both names, read in order, are the same
equal_domain_components(name_1, name_2) == name_1.dc = name_2.dc

\* TryFrom<Capabilities> for Attributes: object identifier 19 carries the
\* basic constraints, 15 the key usage
Attributes_try_from(capabilities) ==
    Ok(<<[oid |-> 19, val |-> IF capabilities.basic_constraints.ca THEN 255 ELSE 0],
         [oid |-> 15, val |-> capabilities.key_usage]>>)

\* TryFrom<Attributes> for Capabilities: each of the two attributes exactly
\* once, unknown attributes are skipped
Capabilities_try_from(attributes) ==
    With2({i \in 1..Len(attributes) : attributes[i].oid = 19},
          {i \in 1..Len(attributes) : attributes[i].oid = 15}, LAMBDA bc, ku :
        IF Cardinality(bc) # 1 \/ Cardinality(ku) # 1 THEN Err("InvalidInput")
        ELSE With2(attributes[CHOOSE i \in bc : TRUE].val,
                   attributes[CHOOSE i \in ku : TRUE].val, LAMBDA b, k :
                 IF b \notin {0, 255} THEN Err("InvalidInput")
                 ELSE Ok([basic_constraints |-> [ca |-> b = 255], key_usage |-> k])))

(***************************************************************************)
(* certs/idcsr.rs: the request.                                            *)
(*   IdCsrInner == [version, subject, subject_public_key, capabilities]    *)
(*   IdCsr      == [inner_csr, signature_algorithm, signature]             *)
(***************************************************************************)
\* IdCsrInner::new
IdCsrInner_new(subject, public_key, capabilities) ==
    IF ~Name_validate(subject) THEN Fail(ConstraintError("subject"))
    ELSE IF ~Capabilities_validate(capabilities)
         THEN Fail(ConstraintError("capabilities"))
         ELSE Ok([version |-> "V1", subject |-> subject,
                  subject_public_key |-> public_key, capabilities |-> capabilities])

\* TryFrom<IdCsrInner> for CertReqInfo
CertReqInfo_try_from(value) ==
    With(Attributes_try_from(value.capabilities), LAMBDA attributes :
        IF ~attributes.ok THEN attributes
        ELSE Ok([version |-> 0, subject |-> value.subject,
                 public_key |->
                     PublicKeyInfo_into(PublicKey_public_key_info(value.subject_public_key)),
                 attributes |-> attributes.v]))

\* IdCsrInner::to_der
IdCsrInner_to_der(inner) ==
    With(CertReqInfo_try_from(inner), LAMBDA info :
        IF ~info.ok THEN info ELSE Ok(EncCertReqInfo(info.v)))

\* TryFrom<CertReqInfo> for IdCsrInner
IdCsrInner_try_from(value) ==
    IF ~Name_validate(value.subject) THEN Fail(ConstraintError("subject"))
    ELSE With2(PublicKey_try_from_public_key_info(
                   [algorithm |-> value.public_key.algorithm,
                    public_key_bitstring |-> value.public_key.subject_public_key.raw]),
               Capabilities_try_from(value.attributes), LAMBDA key, capabilities :
             IF ~key.ok THEN key
             ELSE IF ~capabilities.ok THEN capabilities
                  ELSE Ok([version |-> "V1", subject |-> value.subject,
                           subject_public_key |-> key.v,
                           capabilities |-> capabilities.v]))

\* IdCsrInner::from_der
IdCsrInner_from_der(bytes) ==
    With(CertReqInfo_from_der(bytes), LAMBDA info :
        IF ~info.ok THEN info ELSE IdCsrInner_try_from(info.v))

\* a variant of new that signs the encoded inner request before it validates
\* the subject and the capabilities
IdCsr_new_SignsFirst(subject, signing_key, capabilities) ==
    With(IdCsrInner_to_der([version |-> "V1", subject |-> subject,
                            subject_public_key |-> PrivateKey_pubkey(signing_key),
                            capabilities |-> capabilities]), LAMBDA der :
        IF ~der.ok THEN Res(der, 0, 0)
        ELSE IF ~Name_validate(subject) THEN Res(Fail(ConstraintError("subject")), 1, 0)
        ELSE With(IdCsrInner_new(subject, PrivateKey_pubkey(signing_key), capabilities),
                  LAMBDA inner_csr :
                 IF ~inner_csr.ok THEN Res(inner_csr, 1, 0)
                 ELSE Res(Ok([inner_csr |-> inner_csr.v,
                              signature_algorithm |-> S_algorithm_identifier,
                              signature |-> PrivateKey_sign(signing_key, der.v)]),
                          1, 0)))

\* IdCsr::new
IdCsr_new(subject, signing_key, capabilities) ==
    IF ~Name_validate(subject) THEN Res(Fail(ConstraintError("subject")), 0, 0)
    ELSE With(IdCsrInner_new(subject, PrivateKey_pubkey(signing_key), capabilities),
              LAMBDA inner_csr :
             IF ~inner_csr.ok THEN Res(inner_csr, 0, 0)
             ELSE With(IdCsrInner_to_der(inner_csr.v), LAMBDA der :
                      IF ~der.ok THEN Res(der, 0, 0)
                      ELSE Res(Ok([inner_csr |-> inner_csr.v,
                                   signature_algorithm |-> S_algorithm_identifier,
                                   signature |-> PrivateKey_sign(signing_key, der.v)]),
                               1, 0)))

\* Constrained for IdCsrInner
IdCsrInner_validate(inner) ==
    Name_validate(inner.subject) /\ Capabilities_validate(inner.capabilities)

\* Constrained for IdCsr: the parts, then the signature over the encoded
\* inner request (one verify_signature call)
IdCsr_validate(csr) ==
    IF ~IdCsrInner_validate(csr.inner_csr)
    THEN Res(Fail(ConstraintError("inner_csr")), 0, 0)
    ELSE With(IdCsrInner_to_der(csr.inner_csr), LAMBDA der :
             IF ~der.ok THEN Res(Fail(ConstraintError("inner_csr")), 0, 0)
             ELSE IF ~PublicKey_verify_signature(csr.inner_csr.subject_public_key,
                                                 csr.signature, der.v)
                  THEN Res(Fail(ConstraintError("signature")), 0, 1)
                  ELSE Res(Ok(None), 0, 1))

\* a variant of validate_actor without the rule on the CA flag
IdCsr_validate_actor_AnyRole(csr) ==
    With(IdCsr_validate(csr), LAMBDA generic :
        IF ~generic.ok THEN generic ELSE Res(Ok(None), 0, generic.nverify))

\* IdCsr::validate_actor
IdCsr_validate_actor(csr) ==
    With(IdCsr_validate(csr), LAMBDA generic :
        IF ~generic.ok THEN generic
        ELSE IF csr.inner_csr.capabilities.basic_constraints.ca
             THEN Res(Fail(ConstraintError("Actor CSR must not be a CA")),
                      0, generic.nverify)
             ELSE Res(Ok(None), 0, generic.nverify))

\* IdCsr::validate_home_server
IdCsr_validate_home_server(csr) ==
    With(IdCsr_validate(csr), LAMBDA generic :
        IF ~generic.ok THEN generic
        ELSE IF ~csr.inner_csr.capabilities.basic_constraints.ca
             THEN Res(Fail(ConstraintError(
                         "Home server CSR must have the CA capability set to true")),
                      0, generic.nverify)
             ELSE Res(Ok(None), 0, generic.nverify))

\* a variant of the conversion that does not carry the signature algorithm
\* of the certification request over
IdCsr_try_from_OtherAlgorithm(value) ==
    With(IdCsrInner_try_from(value.info), LAMBDA inner_csr :
        IF ~inner_csr.ok THEN Res(inner_csr, 0, 0)
        ELSE Res(Ok([inner_csr |-> inner_csr.v,
                     signature_algorithm |-> OtherAlgorithm,
                     signature |-> Signature_from_bytes(value.signature.raw)]), 0, 0))

\* a variant of the conversion that validates what it has converted,
\* signature included
IdCsr_try_from_Verifying(value) ==
    With(IdCsrInner_try_from(value.info), LAMBDA inner_csr :
        IF ~inner_csr.ok THEN Res(inner_csr, 0, 0)
        ELSE With([inner_csr |-> inner_csr.v,
                   signature_algorithm |-> value.algorithm,
                   signature |-> Signature_from_bytes(value.signature.raw)], LAMBDA csr :
                 With(IdCsr_validate(csr), LAMBDA checked :
                     IF ~checked.ok THEN checked
                     ELSE Res(Ok(csr), 0, checked.nverify))))

\* TryFrom<CertReq> for IdCsr
IdCsr_try_from(value) ==
    With(IdCsrInner_try_from(value.info), LAMBDA inner_csr :
        IF ~inner_csr.ok THEN Res(inner_csr, 0, 0)
        ELSE Res(Ok([inner_csr |-> inner_csr.v,
                     signature_algorithm |-> value.algorithm,
                     signature |-> Signature_from_bytes(value.signature.raw)]), 0, 0))

\* TryFrom<IdCsr> for CertReq
CertReq_try_from(value) ==
    With2(CertReqInfo_try_from(value.inner_csr),
          Signature_to_bitstring(value.signature), LAMBDA info, signature :
        IF ~info.ok THEN info
        ELSE IF ~signature.ok THEN signature
             ELSE Ok([info |-> info.v, algorithm |-> value.signature_algorithm,
                      signature |-> signature.v]))

\* IdCsr::from_der
IdCsr_from_der(bytes) ==
    With(CertReq_from_der(bytes), LAMBDA req :
        IF ~req.ok THEN Res(req, 0, 0) ELSE IdCsr_try_from(req.v))

\* IdCsr::to_der
IdCsr_to_der(csr) ==
    With(CertReq_try_from(csr), LAMBDA req :
        IF ~req.ok THEN Res(req, 0, 0) ELSE Res(Ok(EncCertReq(req.v)), 0, 0))

\* IdCsr::from_pem
IdCsr_from_pem(pem) ==
    With(CertReq_from_pem(pem), LAMBDA req :
        IF ~req.ok THEN Res(req, 0, 0) ELSE IdCsr_try_from(req.v))

\* IdCsr::to_pem
IdCsr_to_pem(csr, line_ending) ==
    With(CertReq_try_from(csr), LAMBDA req :
        IF ~req.ok THEN Res(req, 0, 0)
        ELSE Res(Ok(PemEncode(EncCertReq(req.v), line_ending)), 0, 0))

(***************************************************************************)
(* Serial numbers: der's Uint keeps the bytes of an unsigned number        *)
(* without leading zeros, x509's SerialNumber keeps the bytes of a signed  *)
(* INTEGER.                                                                *)
(***************************************************************************)
SerialMaxLen == 20

RECURSIVE UintStripLeadingZeroes(_)
UintStripLeadingZeroes(bytes) ==
    IF Len(bytes) >= 2 /\ bytes[1] = 0 THEN UintStripLeadingZeroes(Tail(bytes)) ELSE bytes

\* Uint::new
Uint_new(bytes) ==
    IF bytes = << >> THEN Err("DerError") ELSE Ok(UintStripLeadingZeroes(bytes))

\* strip_leading_zeroes of the test module: one leading zero byte is removed
strip_leading_zeroes(bytes) ==
    IF bytes # << >> /\ bytes[1] = 0 THEN Tail(bytes) ELSE bytes

\* a variant of SerialNumber::new that keeps the bytes of the unsigned number
\* as they are
SerialNumber_new_Unsigned(bytes) ==
    With(Uint_new(bytes), LAMBDA inner :
        IF ~inner.ok THEN inner
        ELSE IF Len(inner.v) > SerialMaxLen THEN Err("DerError") ELSE Ok(inner.v))

\* SerialNumber::new followed by as_bytes
SerialNumber_new(bytes) ==
    With(Uint_new(bytes), LAMBDA inner :
        IF ~inner.ok THEN inner
        ELSE IF Len(inner.v) + (IF inner.v[1] >= 128 THEN 1 ELSE 0) > SerialMaxLen
             THEN Err("DerError")
             ELSE Ok(IF inner.v[1] >= 128 THEN <<0>> \o inner.v ELSE inner.v))

(***************************************************************************)
(* certs/idcerttbs.rs: the certificate to be signed.                       *)
(*   IdCertTbs == [serial_number, signature_algorithm, issuer, validity,   *)
(*                 subject, subject_public_key, capabilities]              *)
(***************************************************************************)
\* Constrained for IdCertTbs
IdCertTbs_validate(tbs) ==
    /\ Capabilities_validate(tbs.capabilities)
    /\ Name_validate(tbs.issuer)
    /\ Name_validate(tbs.subject)
    /\ equal_domain_components(tbs.issuer, tbs.subject)

\* the constructor shared by from_ca_csr and from_actor_csr
IdCertTbs_from_csr(id_csr, serial_number, signature_algorithm, issuer, validity) ==
    [serial_number |-> serial_number, signature_algorithm |-> signature_algorithm,
     issuer |-> issuer, validity |-> validity,
     subject |-> id_csr.inner_csr.subject,
     subject_public_key |-> id_csr.inner_csr.subject_public_key,
     capabilities |-> id_csr.inner_csr.capabilities]

\* IdCertTbs::from_ca_csr
IdCertTbs_from_ca_csr(id_csr, serial_number, signature_algorithm, issuer, validity) ==
    With(IdCsr_validate_home_server(id_csr), LAMBDA checked :
        IF ~checked.ok THEN checked
        ELSE Res(Ok(IdCertTbs_from_csr(id_csr, serial_number, signature_algorithm,
                                       issuer, validity)), 0, checked.nverify))

\* IdCertTbs::from_actor_csr
IdCertTbs_from_actor_csr(id_csr, serial_number, signature_algorithm, issuer, validity) ==
    With(IdCsr_validate_actor(id_csr), LAMBDA checked :
        IF ~checked.ok THEN checked
        ELSE Res(Ok(IdCertTbs_from_csr(id_csr, serial_number, signature_algorithm,
                                       issuer, validity)), 0, checked.nverify))

\* TryFrom<Capabilities> for Extensions
Extensions_try_from(capabilities) == Attributes_try_from(capabilities)

\* TryFrom<IdCertTbs> for TbsCertificate
TbsCertificate_try_from(value) ==
    With2(SerialNumber_new(value.serial_number),
          Extensions_try_from(value.capabilities), LAMBDA serial, extensions :
        IF ~serial.ok THEN Err("SerialNumber")
        ELSE IF ~extensions.ok THEN extensions
             ELSE Ok([version |-> 2, serial_number |-> serial.v,
                      signature |-> value.signature_algorithm,
                      issuer |-> value.issuer, validity |-> value.validity,
                      subject |-> value.subject,
                      subject_public_key_info |->
                          PublicKeyInfo_into(
                              PublicKey_public_key_info(value.subject_public_key)),
                      extensions |-> [some |-> extensions.v]]))

\* TryFrom<TbsCertificate> for IdCertTbs
IdCertTbs_try_from(value) ==
    IF value.extensions = None THEN Err("Extensions")
    ELSE With3(Uint_new(value.serial_number),
               PublicKey_try_from_public_key_info(
                   [algorithm |-> value.subject_public_key_info.algorithm,
                    public_key_bitstring |->
                        value.subject_public_key_info.subject_public_key.raw]),
               Capabilities_try_from(value.extensions.some),
               LAMBDA serial, key, capabilities :
             IF ~serial.ok THEN serial
             ELSE IF ~key.ok THEN key
             ELSE IF ~capabilities.ok THEN capabilities
             ELSE Ok([serial_number |-> serial.v,
                      signature_algorithm |-> value.signature,
                      issuer |-> value.issuer, validity |-> value.validity,
                      subject |-> value.subject, subject_public_key |-> key.v,
                      capabilities |-> capabilities.v]))

\* IdCertTbs::to_der
IdCertTbs_to_der(tbs) ==
    With(TbsCertificate_try_from(tbs), LAMBDA c :
        IF ~c.ok THEN c ELSE Ok(EncTbsCertificate(c.v)))

(***************************************************************************)
(* certs/idcert.rs: the certificate.                                       *)
(*   IdCert == [id_cert_tbs, signature]                                    *)
(***************************************************************************)
\* Constrained for IdCert
IdCert_validate(cert) == IdCertTbs_validate(cert.id_cert_tbs)

\* a variant of from_ca_csr that leaves the comparison of the domain
\* components to the validation of the assembled certificate
IdCert_from_ca_csr_LateDomainCheck(id_csr, signing_key, serial_number, issuer, validity) ==
    IF ~Name_validate(issuer) THEN Res(Fail(ConstraintError("issuer")), 0, 0)
    ELSE With(IdCertTbs_from_ca_csr(id_csr, serial_number,
                  PrivateKey_algorithm_identifier(signing_key), issuer, validity),
              LAMBDA id_cert_tbs :
        IF ~id_cert_tbs.ok THEN id_cert_tbs
        ELSE With(IdCertTbs_to_der(id_cert_tbs.v), LAMBDA der :
            IF ~der.ok THEN Res(der, 0, id_cert_tbs.nverify)
            ELSE With([id_cert_tbs |-> id_cert_tbs.v,
                       signature |-> PrivateKey_sign(signing_key, der.v)], LAMBDA cert :
                IF ~IdCert_validate(cert)
                THEN Res(Fail(ConstraintError("cert")), 1, id_cert_tbs.nverify)
                ELSE Res(Ok(cert), 1, id_cert_tbs.nverify))))

\* a variant of from_ca_csr that builds the certificate to be signed the way
\* from_actor_csr does
IdCert_from_ca_csr_ActorRule(id_csr, signing_key, serial_number, issuer, validity) ==
    IF ~Name_validate(issuer) THEN Res(Fail(ConstraintError("issuer")), 0, 0)
    ELSE IF ~equal_domain_components(id_csr.inner_csr.subject, issuer)
    THEN Res(Fail(ConstraintError(
             "Domain components of the issuer and the subject do not match")), 0, 0)
    ELSE With(IdCertTbs_from_actor_csr(id_csr, serial_number,
                  PrivateKey_algorithm_identifier(signing_key), issuer, validity),
              LAMBDA id_cert_tbs :
        IF ~id_cert_tbs.ok THEN id_cert_tbs
        ELSE With(IdCertTbs_to_der(id_cert_tbs.v), LAMBDA der :
            IF ~der.ok THEN Res(der, 0, id_cert_tbs.nverify)
            ELSE With([id_cert_tbs |-> id_cert_tbs.v,
                       signature |-> PrivateKey_sign(signing_key, der.v)], LAMBDA cert :
                IF ~IdCert_validate(cert)
                THEN Res(Fail(ConstraintError("cert")), 1, id_cert_tbs.nverify)
                ELSE Res(Ok(cert), 1, id_cert_tbs.nverify))))

\* IdCert::from_ca_csr
IdCert_from_ca_csr(id_csr, signing_key, serial_number, issuer, validity) ==
    IF ~Name_validate(issuer) THEN Res(Fail(ConstraintError("issuer")), 0, 0)
    ELSE IF ~equal_domain_components(id_csr.inner_csr.subject, issuer)
    THEN Res(Fail(ConstraintError(
             "Domain components of the issuer and the subject do not match")), 0, 0)
    ELSE With(IdCertTbs_from_ca_csr(id_csr, serial_number,
                  PrivateKey_algorithm_identifier(signing_key), issuer, validity),
              LAMBDA id_cert_tbs :
        IF ~id_cert_tbs.ok THEN id_cert_tbs
        ELSE With(IdCertTbs_to_der(id_cert_tbs.v), LAMBDA der :
            IF ~der.ok THEN Res(der, 0, id_cert_tbs.nverify)
            ELSE With([id_cert_tbs |-> id_cert_tbs.v,
                       signature |-> PrivateKey_sign(signing_key, der.v)], LAMBDA cert :
                IF ~IdCert_validate(cert)
                THEN Res(Fail(ConstraintError("cert")), 1, id_cert_tbs.nverify)
                ELSE Res(Ok(cert), 1, id_cert_tbs.nverify))))

\* a variant of from_actor_csr that validates neither the issuer nor the
\* assembled certificate
IdCert_from_actor_csr_Unvalidated(id_csr, signing_key, serial_number, issuer, validity) ==
    IF ~equal_domain_components(id_csr.inner_csr.subject, issuer)
    THEN Res(Fail(ConstraintError(
             "Domain components of the issuer and the subject do not match")), 0, 0)
    ELSE With(IdCertTbs_from_actor_csr(id_csr, serial_number,
                  PrivateKey_algorithm_identifier(signing_key), issuer, validity),
              LAMBDA id_cert_tbs :
        IF ~id_cert_tbs.ok THEN id_cert_tbs
        ELSE With(IdCertTbs_to_der(id_cert_tbs.v), LAMBDA der :
            IF ~der.ok THEN Res(der, 0, id_cert_tbs.nverify)
            ELSE Res(Ok([id_cert_tbs |-> id_cert_tbs.v,
                         signature |-> PrivateKey_sign(signing_key, der.v)]),
                     1, id_cert_tbs.nverify)))

\* IdCert::from_actor_csr
IdCert_from_actor_csr(id_csr, signing_key, serial_number, issuer, validity) ==
    IF ~Name_validate(issuer) THEN Res(Fail(ConstraintError("issuer")), 0, 0)
    ELSE IF ~equal_domain_components(id_csr.inner_csr.subject, issuer)
    THEN Res(Fail(ConstraintError(
             "Domain components of the issuer and the subject do not match")), 0, 0)
    ELSE With(IdCertTbs_from_actor_csr(id_csr, serial_number,
                  PrivateKey_algorithm_identifier(signing_key), issuer, validity),
              LAMBDA id_cert_tbs :
        IF ~id_cert_tbs.ok THEN id_cert_tbs
        ELSE With(IdCertTbs_to_der(id_cert_tbs.v), LAMBDA der :
            IF ~der.ok THEN Res(der, 0, id_cert_tbs.nverify)
            ELSE With([id_cert_tbs |-> id_cert_tbs.v,
                       signature |-> PrivateKey_sign(signing_key, der.v)], LAMBDA cert :
                IF ~IdCert_validate(cert)
                THEN Res(Fail(ConstraintError("cert")), 1, id_cert_tbs.nverify)
                ELSE Res(Ok(cert), 1, id_cert_tbs.nverify))))

\* TryFrom<IdCert> for Certificate
Certificate_try_from(value) ==
    With2(TbsCertificate_try_from(value.id_cert_tbs),
          Signature_to_bitstring(value.signature), LAMBDA tbs, signature :
        IF ~tbs.ok THEN tbs
        ELSE IF ~signature.ok THEN signature
             ELSE Ok([tbs_certificate |-> tbs.v,
                      signature_algorithm |-> value.id_cert_tbs.signature_algorithm,
                      signature |-> signature.v]))

\* a variant of the conversion that does not carry the signature over
IdCert_try_from_NoSignature(value) ==
    With(IdCertTbs_try_from(value.tbs_certificate), LAMBDA id_cert_tbs :
        IF ~id_cert_tbs.ok THEN id_cert_tbs
        ELSE Ok([id_cert_tbs |-> id_cert_tbs.v,
                 signature |-> Signature_from_bytes(<< >>)]))

\* TryFrom<Certificate> for IdCert
IdCert_try_from(value) ==
    With(IdCertTbs_try_from(value.tbs_certificate), LAMBDA id_cert_tbs :
        IF ~id_cert_tbs.ok THEN id_cert_tbs
        ELSE Ok([id_cert_tbs |-> id_cert_tbs.v,
                 signature |-> Signature_from_bytes(value.signature.raw)]))

\* IdCert::try_from(Certificate::from_der(&value)?): the certificate that the
\* bytes parse and convert into
IdCert_converted_from_der(value) ==
    With(Certificate_from_der(value), LAMBDA c :
        IF ~c.ok THEN c ELSE IdCert_try_from(c.v))

\* a variant of from_der that leaves validation to the caller
IdCert_from_der_Unvalidated(value) ==
    With(Certificate_from_der(value), LAMBDA c :
        IF ~c.ok THEN Res(c, 0, 0)
        ELSE With(IdCert_try_from(c.v), LAMBDA cert : Res(cert, 0, 0)))

\* IdCert::from_der
IdCert_from_der(value) ==
    With(Certificate_from_der(value), LAMBDA c :
        IF ~c.ok THEN Res(c, 0, 0)
        ELSE With(IdCert_try_from(c.v), LAMBDA cert :
                 IF ~cert.ok THEN Res(cert, 0, 0)
                 ELSE IF ~IdCert_validate(cert.v)
                      THEN Res(Fail(ConstraintError("cert")), 0, 0)
                      ELSE Res(cert, 0, 0)))

\* IdCert::to_der
IdCert_to_der(cert) ==
    With(Certificate_try_from(cert), LAMBDA c :
        IF ~c.ok THEN Res(c, 0, 0) ELSE Res(Ok(EncCertificate(c.v)), 0, 0))

(***************************************************************************)
(* certificates.rs: the string based request, certificate to be signed and *)
(* certificate.                                                            *)
(*   IdCsr     == [pub_key, federation_id, session_id, expiry]             *)
(*   IdCertTBS == [pub_key, federation_id, session_id, expiry, serial]     *)
(*   IdCert    == IdCertTBS plus signature                                 *)
(* Strings are byte sequences; Option<u64> is None or [some |-> n].        *)
(***************************************************************************)
\* usize::to_be_bytes / u64::to_be_bytes: w bytes, most significant first
RECURSIVE to_be_bytes(_, _)
to_be_bytes(n, w) ==
    IF w = 0 THEN << >> ELSE Append(to_be_bytes(n \div 256, w - 1), n % 256)

\* a variant of to_id_cert_tbs that prefers the expiry of the request
IdCsr_to_id_cert_tbs_OwnExpiry(self, expiry, serial) ==
    [pub_key |-> self.pub_key, federation_id |-> self.federation_id,
     session_id |-> self.session_id,
     expiry |-> IF self.expiry = None THEN expiry ELSE self.expiry.some,
     serial |-> serial]

\* IdCsr::to_id_cert_tbs
IdCsr_to_id_cert_tbs(self, expiry, serial) ==
    [pub_key |-> self.pub_key, federation_id |-> self.federation_id,
     session_id |-> self.session_id, expiry |-> expiry, serial |-> serial]

\* a variant of the conversion that forgets the expiry
IdCsr_from_NoExpiry(value) ==
    [pub_key |-> value.pub_key, federation_id |-> value.federation_id,
     session_id |-> value.session_id, expiry |-> None]

\* From<IdCertTBS> for IdCsr
IdCsr_from(value) ==
    [pub_key |-> value.pub_key, federation_id |-> value.federation_id,
     session_id |-> value.session_id, expiry |-> [some |-> value.expiry]]

\* a variant of to_bytes that leaves the expiry out
IdCertTBS_to_bytes_NoExpiry(self) ==
    self.pub_key.bytes
    \o to_be_bytes(Len(self.federation_id.actor_name), 8) \o self.federation_id.actor_name
    \o to_be_bytes(Len(self.federation_id.domain), 8) \o self.federation_id.domain
    \o to_be_bytes(Len(self.federation_id.tld), 8) \o self.federation_id.tld
    \o to_be_bytes(Len(self.session_id), 8) \o self.session_id
    \o to_be_bytes(Len(self.serial), 8) \o self.serial

\* IdCertTBS::to_bytes
IdCertTBS_to_bytes(self) ==
    self.pub_key.bytes
    \o to_be_bytes(Len(self.federation_id.actor_name), 8) \o self.federation_id.actor_name
    \o to_be_bytes(Len(self.federation_id.domain), 8) \o self.federation_id.domain
    \o to_be_bytes(Len(self.federation_id.tld), 8) \o self.federation_id.tld
    \o to_be_bytes(Len(self.session_id), 8) \o self.session_id
    \o to_be_bytes(self.expiry, 8)
    \o to_be_bytes(Len(self.serial), 8) \o self.serial

\* Signer::sign of a private key that has a signature type
Signer_sign(private_key, bytes) ==
    [signature_type |-> private_key.signature_type,
     signature |-> <<private_key.key, Digest(bytes)>>]

\* a variant of try_sign that does not compare the signature types
IdCertTBS_try_sign_AnyType(self, private_key) ==
    Res(Ok([pub_key |-> self.pub_key, federation_id |-> self.federation_id,
            session_id |-> self.session_id, expiry |-> self.expiry,
            serial |-> self.serial,
            signature |-> Signer_sign(private_key, IdCertTBS_to_bytes(self))]),
        1, 0)

\* IdCertTBS::try_sign
IdCertTBS_try_sign(self, private_key) ==
    IF private_key.signature_type # self.pub_key.signature_type
    THEN Res(Fail([kind |-> "SignatureTypeMismatch",
                   msg |-> <<private_key.signature_type, self.pub_key.signature_type>>]),
             0, 0)
    ELSE Res(Ok([pub_key |-> self.pub_key, federation_id |-> self.federation_id,
                 session_id |-> self.session_id, expiry |-> self.expiry,
                 serial |-> self.serial,
                 signature |-> Signer_sign(private_key, IdCertTBS_to_bytes(self))]),
             1, 0)

(***************************************************************************)
(* The state machine.  held == [kind, v, by]: the kind of value the caller *)
(* holds, the value, and the operation that produced it.                   *)
(***************************************************************************)
Nothing == [kind |-> "none", v |-> None, by |-> "none"]

Bytes(b) == [bytes |-> b]

\* what the caller holds after a call that returns r
After(r, kind, op) ==
    IF r.ok THEN [kind |-> kind, v |-> r.v, by |-> op] ELSE Nothing

Call(op, in, r) ==
    [op |-> op, in |-> in, ok |-> r.ok, err |-> r.err,
     nsign |-> r.nsign, nverify |-> r.nverify]

\* a subject signs a request
\* the caller holds nothing and has made no call yet
Idle == held = Nothing /\ last.op = "init"

\* the caller lets go of what it holds
Reset ==
    /\ ~Idle
    /\ held' = Nothing
    /\ origin' = None
    /\ last' = [op |-> "init", in |-> None, ok |-> TRUE, err |-> NoError,
               nsign |-> 0, nverify |-> 0]

NewCsr ==
    /\ Idle
    /\ \E subject \in Names, k \in Keys, capabilities \in CapabilitiesSet :
        \E signing_key \in {[key |-> k]} :
        \E r \in {IdCsr_new(subject, signing_key, capabilities)} :
        /\ held' = After(r, "csr", "IdCsr::new")
        /\ origin' = None
        /\ last' = Call("IdCsr::new",
                        [subject |-> subject, signing_key |-> signing_key,
                         capabilities |-> capabilities], r)

ValidateActor ==
    /\ held.kind = "csr"
    /\ last' = Call("IdCsr::validate_actor", [csr |-> held.v],
                    IdCsr_validate_actor(held.v))
    /\ UNCHANGED <<held, origin>>

ValidateHomeServer ==
    /\ held.kind = "csr"
    /\ last' = Call("IdCsr::validate_home_server", [csr |-> held.v],
                    IdCsr_validate_home_server(held.v))
    /\ UNCHANGED <<held, origin>>

CsrToDer ==
    /\ held.kind = "csr"
    /\ \E r \in {IdCsr_to_der(held.v)} :
       /\ held' = After([r EXCEPT !.v = Bytes(r.v)], "der", "IdCsr::to_der")
       /\ origin' = held
       /\ last' = Call("IdCsr::to_der", [csr |-> held.v, by |-> held.by], r)

CsrToPem ==
    /\ held.kind = "csr"
    /\ \E line_ending \in LineEndings :
        \E r \in {IdCsr_to_pem(held.v, line_ending)} :
        /\ held' = After([r EXCEPT !.v = Bytes(r.v)], "pem", "IdCsr::to_pem")
        /\ origin' = held
        /\ last' = Call("IdCsr::to_pem",
                        [csr |-> held.v, by |-> held.by, line_ending |-> line_ending], r)

CsrFromDer ==
    /\ held.kind = "der"
    /\ \E r \in {IdCsr_from_der(held.v.bytes)} :
       /\ held' = After(r, "csr", "IdCsr::from_der")
       /\ last' = Call("IdCsr::from_der", [bytes |-> held.v.bytes], r)
    /\ UNCHANGED origin

CsrFromPem ==
    /\ held.kind = "pem"
    /\ \E r \in {IdCsr_from_pem(held.v.bytes)} :
       /\ held' = After(r, "csr", "IdCsr::from_pem")
       /\ last' = Call("IdCsr::from_pem", [pem |-> held.v.bytes], r)
    /\ UNCHANGED origin

\* a certificate authority issues a home server certificate
IssueCa ==
    /\ held.kind = "csr"
    /\ \E k \in Keys, serial_number \in SerialSet, issuer \in IssuerSet,
          validity \in ValiditySet :
        \E r \in {IdCert_from_ca_csr(held.v, [key |-> k], serial_number, issuer,
                                     validity)} :
        /\ held' = After(r, "cert", "IdCert::from_ca_csr")
        /\ origin' = None
        /\ last' = Call("IdCert::from_ca_csr",
                        [id_csr |-> held.v, signing_key |-> [key |-> k],
                         serial_number |-> serial_number, issuer |-> issuer,
                         validity |-> validity], r)

\* a certificate authority issues an actor certificate
IssueActor ==
    /\ held.kind = "csr"
    /\ \E k \in Keys, serial_number \in SerialSet, issuer \in IssuerSet,
          validity \in ValiditySet :
        \E r \in {IdCert_from_actor_csr(held.v, [key |-> k], serial_number, issuer,
                                        validity)} :
        /\ held' = After(r, "cert", "IdCert::from_actor_csr")
        /\ origin' = None
        /\ last' = Call("IdCert::from_actor_csr",
                        [id_csr |-> held.v, signing_key |-> [key |-> k],
                         serial_number |-> serial_number, issuer |-> issuer,
                         validity |-> validity], r)

CertToDer ==
    /\ held.kind = "cert"
    /\ \E r \in {IdCert_to_der(held.v)} :
       /\ held' = After([r EXCEPT !.v = Bytes(r.v)], "der", "IdCert::to_der")
       /\ origin' = held
       /\ last' = Call("IdCert::to_der", [cert |-> held.v, by |-> held.by], r)

CertFromDer ==
    /\ held.kind = "der"
    /\ \E r \in {IdCert_from_der(held.v.bytes)} :
       /\ held' = After(r, "cert", "IdCert::from_der")
       /\ last' = Call("IdCert::from_der", [value |-> held.v.bytes], r)
    /\ UNCHANGED origin

\* bytes arrive that some other party encoded
ReceiveCsr ==
    /\ Idle
    /\ \E req \in ForeignCertReqs :
        /\ held' = [kind |-> "der", v |-> Bytes(EncCertReq(req)), by |-> "received"]
        /\ origin' = None
        /\ last' = Call("receive", [req |-> req], Res(Ok(None), 0, 0))

\* the bytes of a certificate arrive that some other party encoded
ReceiveCert ==
    /\ Idle
    /\ \E cert \in ForeignCertificates :
        /\ held' = [kind |-> "der", v |-> Bytes(EncCertificate(cert)), by |-> "received"]
        /\ origin' = None
        /\ last' = Call("receive", [cert |-> cert], Res(Ok(None), 0, 0))

\* test_convert_serial_number, for any bytes: Uint::new(bytes), then
\* SerialNumber::new(biguint.as_bytes())
ConvertSerialNumber ==
    /\ Idle
    /\ \E bytes \in SerialBytes :
        \E biguint \in {Uint_new(bytes)} :
        \E serial_number \in {IF biguint.ok THEN SerialNumber_new(biguint.v)
                                           ELSE biguint} :
        /\ held' = After(IF serial_number.ok
                         THEN Ok([uint |-> biguint.v, serial_number |-> serial_number.v])
                         ELSE serial_number,
                         "serial", "SerialNumber::new")
        /\ origin' = None
        /\ last' = Call("SerialNumber::new", [bytes |-> bytes],
                        Res(serial_number, 0, 0))

\* the bytes are changed on the way: the last byte is cut off, a byte is
\* added, or the lowest bit of the last byte of an encoding this program made
\* (the end of a signature that is not empty) is inverted
Tamper ==
    /\ held.kind \in {"der", "pem"}
    /\ held.by # "tamper"
    /\ \E how \in {"cut", "add", "flip"} :
        /\ how = "flip" => /\ held.kind = "der"
                           /\ origin # None
                           /\ origin.v.signature.bytes # << >>
        /\ held' = [kind |-> held.kind, by |-> "tamper",
                    v |-> Bytes(IF how = "cut"
                                THEN SubSeq(held.v.bytes, 1, Len(held.v.bytes) - 1)
                                ELSE IF how = "add" THEN Append(held.v.bytes, 0)
                                ELSE [held.v.bytes EXCEPT ![Len(held.v.bytes)] =
                                         IF @ % 2 = 0 THEN @ + 1 ELSE @ - 1])]
        /\ origin' = IF how = "flip" THEN [origin EXCEPT !.by = "flip"] ELSE None
        /\ last' = Call("tamper", [how |-> how], Res(Ok(None), 0, 0))

\* certificates.rs: a request is put together
LegacyCsr ==
    /\ Idle
    /\ \E csr \in LegacyCsrSet :
        /\ held' = [kind |-> "legacy_csr", v |-> csr, by |-> "literal"]
        /\ origin' = None
        /\ last' = Call("IdCsr", [csr |-> csr], Res(Ok(None), 0, 0))

\* to_id_cert_tbs borrows the request (&self): the caller still has it, as
\* origin
LegacyToIdCertTbs ==
    /\ held.kind = "legacy_csr"
    /\ \E expiry \in ExpirySet, serial \in LegacySerialSet :
        /\ held' = [kind |-> "legacy_tbs", by |-> "IdCsr::to_id_cert_tbs",
                    v |-> IdCsr_to_id_cert_tbs(held.v, expiry, serial)]
        /\ origin' = held
        /\ last' = Call("IdCsr::to_id_cert_tbs",
                        [self |-> held.v, expiry |-> expiry, serial |-> serial],
                        Res(Ok(None), 0, 0))

LegacyFromTbs ==
    /\ held.kind = "legacy_tbs"
    /\ held' = [kind |-> "legacy_csr", by |-> "IdCsr::from", v |-> IdCsr_from(held.v)]
    /\ UNCHANGED origin
    /\ last' = Call("IdCsr::from", [value |-> held.v], Res(Ok(None), 0, 0))

LegacyTrySign ==
    /\ held.kind = "legacy_tbs"
    /\ \E private_key \in LegacyPrivateKeys :
        \E r \in {IdCertTBS_try_sign(held.v, private_key)} :
        /\ held' = After(r, "legacy_cert", "IdCertTBS::try_sign")
        /\ origin' = None
        /\ last' = Call("IdCertTBS::try_sign",
                        [self |-> held.v, private_key |-> private_key], r)

Init ==
    /\ held = Nothing
    /\ origin = None
    /\ last = [op |-> "init", in |-> None, ok |-> TRUE, err |-> NoError,
               nsign |-> 0, nverify |-> 0]

Next ==
    \/ NewCsr
    \/ ValidateActor
    \/ ValidateHomeServer
    \/ CsrToDer
    \/ CsrToPem
    \/ CsrFromDer
    \/ CsrFromPem
    \/ IssueCa
    \/ IssueActor
    \/ CertToDer
    \/ CertFromDer
    \/ ReceiveCsr
    \/ ReceiveCert
    \/ ConvertSerialNumber
    \/ Tamper
    \/ LegacyCsr
    \/ LegacyToIdCertTbs
    \/ LegacyFromTbs
    \/ LegacyTrySign
    \/ Reset

Spec == Init /\ [][Next]_vars

(***************************************************************************)
(* The properties.                                                         *)
(***************************************************************************)
Issuing == {"IdCert::from_ca_csr", "IdCert::from_actor_csr"}

CsrDecoding == {"IdCsr::from_der", "IdCsr::from_pem"}

\* the encoding the caller holds or has just decoded was made, and left
\* unchanged, from a value of this kind that this operation returned
EncodedFrom(kind, ops) == origin # None /\ origin.kind = kind /\ origin.by \in ops

\* C1: a request that IdCsr::new returned is encoded by to_der and by to_pem
\* (any line ending) without an error, and from_der, from_pem of that
\* encoding succeed and return a request equal to it in every field.
C1_CsrRoundTrip ==
    /\ (last.op \in {"IdCsr::to_der", "IdCsr::to_pem"} /\ last.in.by = "IdCsr::new")
       => last.ok /\ held.kind \in {"der", "pem"}
    /\ (last.op \in CsrDecoding /\ EncodedFrom("csr", {"IdCsr::new"}))
       => /\ last.ok
          /\ held.kind = "csr"
          /\ held.v = origin.v
          /\ held.v.inner_csr.version = origin.v.inner_csr.version
          /\ held.v.signature_algorithm = origin.v.signature_algorithm
          /\ held.v.signature = origin.v.signature

C1_Witness ==
    /\ last.op = "IdCsr::from_pem"
    /\ EncodedFrom("csr", {"IdCsr::new"})
    /\ Len(origin.v.inner_csr.subject.dc) = 2
    /\ origin.v.inner_csr.capabilities.basic_constraints.ca
    /\ held.v = origin.v

\* C2: a certificate that IdCert::from_ca_csr or IdCert::from_actor_csr
\* returned is encoded by to_der without an error, and from_der of that
\* encoding succeeds and returns a certificate with the same id_cert_tbs
\* (signature_algorithm included) and the same signature.
C2_CertRoundTrip ==
    /\ (last.op = "IdCert::to_der" /\ last.in.by \in Issuing)
       => last.ok /\ held.kind = "der"
    /\ (last.op = "IdCert::from_der" /\ EncodedFrom("cert", Issuing))
       => /\ last.ok
          /\ held.kind = "cert"
          /\ held.v.id_cert_tbs = origin.v.id_cert_tbs
          /\ held.v.signature = origin.v.signature

C2_Witness ==
    /\ last.op = "IdCert::from_der"
    /\ EncodedFrom("cert", {"IdCert::from_ca_csr"})
    /\ origin.v.id_cert_tbs.serial_number = <<240, 10>>
    /\ held.v = origin.v

\* C3: for a request that passes the generic validation, validate_actor
\* returns Ok exactly when the CA flag is false and validate_home_server
\* returns Ok exactly when it is true; the one that fails returns a
\* ConstraintError; so such a request passes exactly one of the two.
C3_RoleValidation ==
    /\ (last.op = "IdCsr::validate_actor" /\ IdCsr_validate(last.in.csr).ok)
       => /\ last.ok = ~last.in.csr.inner_csr.capabilities.basic_constraints.ca
          /\ ~last.ok => last.err.kind = "ConstraintError"
    /\ (last.op = "IdCsr::validate_home_server" /\ IdCsr_validate(last.in.csr).ok)
       => /\ last.ok = last.in.csr.inner_csr.capabilities.basic_constraints.ca
          /\ ~last.ok => last.err.kind = "ConstraintError"
    /\ (held.kind = "csr" /\ IdCsr_validate(held.v).ok)
       => IdCsr_validate_actor(held.v).ok # IdCsr_validate_home_server(held.v).ok
    /\ held.kind = "csr"
       => ~(IdCsr_validate_actor(held.v).ok /\ IdCsr_validate_home_server(held.v).ok)

C3_Witness ==
    /\ last.op = "IdCsr::validate_actor"
    /\ IdCsr_validate(last.in.csr).ok
    /\ last.in.csr.inner_csr.capabilities.basic_constraints.ca
    /\ ~last.ok
    /\ last.err.kind = "ConstraintError"
    /\ IdCsr_validate_home_server(last.in.csr).ok

\* C4: from_ca_csr and from_actor_csr, called with an issuer whose domain
\* components are not the subject's, return a ConstraintError, have not
\* called sign, and return no certificate.
C4_DomainMismatchBeforeSigning ==
    (/\ last.op \in Issuing
     /\ last.in.id_csr.inner_csr.subject.dc # last.in.issuer.dc)
    => /\ ~last.ok
       /\ last.err.kind = "ConstraintError"
       /\ last.nsign = 0
       /\ held = Nothing

C4_Witness ==
    /\ last.op = "IdCert::from_ca_csr"
    /\ last.in.id_csr.inner_csr.subject.dc # last.in.issuer.dc
    /\ Name_validate(last.in.issuer)
    /\ IdCsr_validate_home_server(last.in.id_csr).ok
    /\ last.err.msg = "Domain components of the issuer and the subject do not match"
    /\ last.nsign = 0

\* C5: try_sign with a private key whose signature type is not that of the
\* public key returns SignatureTypeMismatch, has not called sign and returns
\* no certificate; with equal signature types it does not return
\* SignatureTypeMismatch.
C5_SignatureTypeMismatch ==
    last.op = "IdCertTBS::try_sign"
    => /\ (last.in.private_key.signature_type # last.in.self.pub_key.signature_type)
          => /\ ~last.ok
             /\ last.err.kind = "SignatureTypeMismatch"
             /\ last.nsign = 0
             /\ held = Nothing
       /\ (last.in.private_key.signature_type = last.in.self.pub_key.signature_type)
          => last.err.kind # "SignatureTypeMismatch"

C5_Witness ==
    /\ last.op = "IdCertTBS::try_sign"
    /\ last.in.private_key.signature_type = "TypeB"
    /\ last.in.self.pub_key.signature_type = "TypeA"
    /\ last.err.kind = "SignatureTypeMismatch"
    /\ held = Nothing

\* C6: a certificate that from_ca_csr or from_actor_csr returns passes
\* validate(); a call that fails returns an error and no certificate.
C6_IssuedCertificateIsValid ==
    last.op \in Issuing
    => /\ last.ok => /\ held.kind = "cert"
                     /\ IdCert_validate(held.v)
                     /\ last.err = NoError
       /\ ~last.ok => /\ held = Nothing
                      /\ last.err # NoError

C6_Witness ==
    /\ last.op = "IdCert::from_actor_csr"
    /\ last.ok
    /\ held.kind = "cert"
    /\ IdCert_validate(held.v)
    /\ held.v.id_cert_tbs.issuer = last.in.issuer

RequestKinds == {"csr", "legacy_csr"}

LaterStageKinds == {"legacy_tbs", "legacy_cert", "cert"}

C9_NewValidatesBeforeSigning ==
    last.op = "IdCsr::new"
    => /\ (~Name_validate(last.in.subject)
           \/ ~Capabilities_validate(last.in.capabilities))
          => /\ ~last.ok
             /\ last.err.kind = "ConstraintError"
             /\ last.nsign = 0
             /\ held = Nothing
       /\ last.ok
          => /\ held.kind = "csr"
             /\ IdCsrInner_to_der(held.v.inner_csr).ok
             /\ held.v.signature =
                    PrivateKey_sign(last.in.signing_key,
                                    IdCsrInner_to_der(held.v.inner_csr).v)
             /\ held.v.signature_algorithm = S_algorithm_identifier
             /\ held.v.inner_csr.subject = last.in.subject
             /\ held.v.inner_csr.capabilities = last.in.capabilities

C9_Witness ==
    /\ last.op = "IdCsr::new"
    /\ Name_validate(last.in.subject)
    /\ ~Capabilities_validate(last.in.capabilities)
    /\ last.err = ConstraintError("capabilities")
    /\ last.nsign = 0

\* C10: from_der and from_pem of a request do not call verify_signature;
\* the encoding of a request with its signature changed decodes to the same
\* request but for the signature, whether or not that signature verifies.
C10_DecodeDoesNotVerify ==
    /\ last.op \in CsrDecoding => last.nverify = 0
    /\ (/\ last.op = "IdCsr::from_der"
        /\ EncodedFrom("csr", {"flip"}))
       => /\ last.ok
          /\ held.kind = "csr"
          /\ held.v.inner_csr = origin.v.inner_csr
          /\ held.v.signature_algorithm = origin.v.signature_algorithm
          /\ held.v.signature # origin.v.signature

C10_Witness ==
    /\ last.op = "IdCsr::from_der"
    /\ EncodedFrom("csr", {"flip"})
    /\ IdCsr_validate(origin.v).ok
    /\ last.ok
    /\ held.kind = "csr"
    /\ IdCsr_validate(held.v).err = ConstraintError("signature")

C12_MalformedSignatureFails ==
    /\ (/\ last.op = "IdCsr::from_der"
        /\ CertReq_from_der(last.in.bytes).ok
        /\ \/ ~Signature_valid_layout(CertReq_from_der(last.in.bytes).v.signature.raw)
           \/ ~PublicKey_try_from_public_key_info(
                   [algorithm |->
                        CertReq_from_der(last.in.bytes).v.info.public_key.algorithm,
                    public_key_bitstring |->
                        CertReq_from_der(last.in.bytes).v.info.public_key
                            .subject_public_key.raw]).ok)
       => ~last.ok /\ held = Nothing
    /\ (/\ last.op = "IdCert::from_der"
        /\ Certificate_from_der(last.in.value).ok
        /\ \/ ~Signature_valid_layout(Certificate_from_der(last.in.value).v.signature.raw)
           \/ ~PublicKey_try_from_public_key_info(
                   [algorithm |->
                        Certificate_from_der(last.in.value).v.tbs_certificate
                            .subject_public_key_info.algorithm,
                    public_key_bitstring |->
                        Certificate_from_der(last.in.value).v.tbs_certificate
                            .subject_public_key_info.subject_public_key.raw]).ok)
       => ~last.ok /\ held = Nothing

\* C13, as the claim states it: for every b that Uint::new accepts, the bytes
\* of the Uint are b, and the bytes of SerialNumber::new(b) are b, after at
\* most one leading zero byte is removed.
C13_SerialKeepsBytes ==
    (last.op = "SerialNumber::new" /\ Uint_new(last.in.bytes).ok)
    => /\ last.ok
       /\ held.v.uint = last.in.bytes
       /\ held.v.serial_number \in {last.in.bytes, <<0>> \o last.in.bytes}

\* C13: the bytes of the Uint are b without its leading zero bytes (b itself
\* when it has none); the bytes of the SerialNumber are those of the Uint,
\* preceded by one zero byte exactly when the top bit of their first byte is
\* set; a number of up to three bytes is always accepted, and a number that
\* is rejected yields no serial number.
C13_SerialKeepsValue ==
    last.op = "SerialNumber::new"
    => /\ last.ok
          => /\ held.kind = "serial"
             /\ Len(held.v.uint) >= 1
             /\ Len(held.v.uint) <= Len(last.in.bytes)
             /\ held.v.uint = SubSeq(last.in.bytes,
                                     Len(last.in.bytes) - Len(held.v.uint) + 1,
                                     Len(last.in.bytes))
             /\ \A i \in 1..(Len(last.in.bytes) - Len(held.v.uint)) :
                    last.in.bytes[i] = 0
             /\ Len(held.v.uint) = 1 \/ held.v.uint[1] # 0
             /\ (Len(last.in.bytes) = 1 \/ last.in.bytes[1] # 0)
                => held.v.uint = last.in.bytes
             /\ held.v.serial_number =
                    IF held.v.uint[1] >= 128 THEN <<0>> \o held.v.uint ELSE held.v.uint
             /\ held.v.uint # <<0>>
                => strip_leading_zeroes(held.v.serial_number) = held.v.uint
       /\ ~last.ok => held = Nothing
       /\ Len(last.in.bytes) <= 3 => last.ok

C13_Witness ==
    /\ last.op = "SerialNumber::new"
    /\ last.in.bytes = <<0, 0, 240>>
    /\ held.kind = "serial"
    /\ held.v.uint = <<240>>
    /\ held.v.serial_number = <<0, 240>>

\* C14: to_id_cert_tbs(expiry, serial) returns a certificate to be signed
\* with the pub_key, federation_id and session_id of the request and with
\* the expiry and serial of the call, whatever the expiry of the request
\* is; the request is as it was; IdCsr::from of that value is the request
\* with Some(expiry) as its expiry.
C14_ToIdCertTbsFrame ==
    /\ last.op = "IdCsr::to_id_cert_tbs"
       => /\ held.kind = "legacy_tbs"
          /\ held.v = [pub_key |-> last.in.self.pub_key,
                       federation_id |-> last.in.self.federation_id,
                       session_id |-> last.in.self.session_id,
                       expiry |-> last.in.expiry,
                       serial |-> last.in.serial]
          /\ origin # None
          /\ origin.kind = "legacy_csr"
          /\ origin.v = last.in.self
    /\ (last.op = "IdCsr::from" /\ origin # None /\ origin.kind = "legacy_csr")
       => /\ held.kind = "legacy_csr"
          /\ held.v = [origin.v EXCEPT !.expiry = [some |-> last.in.value.expiry]]
          /\ held.v.pub_key = origin.v.pub_key
          /\ held.v.federation_id = origin.v.federation_id
          /\ held.v.session_id = origin.v.session_id

C14_Witness ==
    /\ last.op = "IdCsr::from"
    /\ origin # None
    /\ origin.kind = "legacy_csr"
    /\ origin.v.expiry = [some |-> 258]
    /\ last.in.value.expiry = 0
    /\ held.v.expiry = [some |-> 0]

\* C15: a certificate that try_sign returns has the pub_key, federation_id,
\* session_id, expiry and serial of the certificate to be signed; its
\* signature is one call of sign on the bytes: the public key bytes, then
\* actor_name, domain, tld and session_id each after its length, then the
\* expiry, then the serial after its length; a certificate to be signed
\* that differs in any of these has other bytes.
C15_SignatureCoversTbs ==
    (last.op = "IdCertTBS::try_sign" /\ last.ok)
    => /\ held.kind = "legacy_cert"
       /\ held.v.pub_key = last.in.self.pub_key
       /\ held.v.federation_id = last.in.self.federation_id
       /\ held.v.session_id = last.in.self.session_id
       /\ held.v.expiry = last.in.self.expiry
       /\ held.v.serial = last.in.self.serial
       /\ last.nsign = 1
       /\ held.v.signature =
              Signer_sign(last.in.private_key, IdCertTBS_to_bytes(last.in.self))
       /\ IdCertTBS_to_bytes(last.in.self) =
              last.in.self.pub_key.bytes
              \o <<0, 0, 0, 0, 0, 0, 0, Len(last.in.self.federation_id.actor_name)>>
              \o last.in.self.federation_id.actor_name
              \o <<0, 0, 0, 0, 0, 0, 0, Len(last.in.self.federation_id.domain)>>
              \o last.in.self.federation_id.domain
              \o <<0, 0, 0, 0, 0, 0, 0, Len(last.in.self.federation_id.tld)>>
              \o last.in.self.federation_id.tld
              \o <<0, 0, 0, 0, 0, 0, 0, Len(last.in.self.session_id)>>
              \o last.in.self.session_id
              \o <<0, 0, 0, 0, 0, 0, last.in.self.expiry \div 256,
                   last.in.self.expiry % 256>>
              \o <<0, 0, 0, 0, 0, 0, 0, Len(last.in.self.serial)>>
              \o last.in.self.serial
       /\ \A other \in LegacyTbsSet :
              (\/ other.pub_key.bytes # last.in.self.pub_key.bytes
               \/ other.federation_id # last.in.self.federation_id
               \/ other.session_id # last.in.self.session_id
               \/ other.expiry # last.in.self.expiry
               \/ other.serial # last.in.self.serial)
              => IdCertTBS_to_bytes(other) # IdCertTBS_to_bytes(last.in.self)

C15_Witness ==
    /\ last.op = "IdCertTBS::try_sign"
    /\ last.ok
    /\ held.kind = "legacy_cert"
    /\ held.v.expiry = 258
    /\ held.v.serial = <<49>>
    /\ held.v.pub_key.bytes = <<8>>
    /\ held.v.signature =
           Signer_sign(last.in.private_key, IdCertTBS_to_bytes(last.in.self))
====
